---- MODULE Spec2Model ----
(***************************************************************************)
(* A model of the LLM readiness platform core: the prompt registry         *)
(* (core/prompt_registry.py), the eval runner (core/eval_runner.py), the   *)
(* reliability metrics aggregator (core/reliability_metrics.py), the drift *)
(* report (core/drift_report.py) and the release gate                      *)
(* (core/release_gate.py).                                                 *)
(*                                                                         *)
(* Strings are sequences of one-character strings, so that strip(),        *)
(* lower() and the substring test are computed rather than assumed.        *)
(* Metric values are exact rationals in units of 1/Scale; Python computes  *)
(* them in binary floating point, whose rounding is not modelled.          *)
(***************************************************************************)
EXTENDS Integers, Sequences, FiniteSets, TLC

VARIABLES
    \* ---- prompt registry: the on-disk store (prompts/<id>/...) ----
    meta,          \* id -> the "versions" list of prompts/<id>/meta.json
    blobs,         \* id -> (version -> text of prompts/<id>/vNNNN.txt)
    reg_result,    \* what the last serialized registry call returned or raised
    add_returns,   \* history: id -> versions returned by successful adds, in order
    added_texts,   \* history: {<<id, version, text written>>} of successful adds
    add_args,      \* history: {<<id, version, text argument>>} of successful adds
    \* ---- interleaved add calls (one frame per calling process) ----
    a_pc, a_id, a_text, a_note, a_versions, a_next, a_ret,
    a_torn,        \* the ids whose meta.json is truncated and not yet rewritten
    \* ---- a get call running beside an add (the frame of the reader) ----
    d_pc, d_id, d_version, d_result,
    d_had,         \* history: the id had a version when the get call began
    \* ---- eval runner: one run_suite call ----
    r_pc, r_cases, r_overrides, r_prompt_id, r_system_prompt, r_full_prompts,
    r_outputs, r_results, r_raised, r_backend_calls, r_sent,
    r_composed,    \* history: direct _compose_prompt calls and what they returned
    r_scored,      \* history: direct scorer calls and what they returned
    \* ---- metrics aggregator, drift report, release gate ----
    g_pc, g_op, g_base_rows, g_cand_rows, g_policy, g_base_metrics,
    g_cand_metrics, g_failures, g_status, g_exit,
    g_prev         \* history: the gate invocation before the current one

reg_vars == <<meta, blobs, reg_result, add_returns, added_texts, add_args>>
race_vars == <<a_pc, a_id, a_text, a_note, a_versions, a_next, a_ret, a_torn,
               d_pc, d_id, d_version, d_result, d_had>>
run_vars == <<r_pc, r_cases, r_overrides, r_prompt_id, r_system_prompt,
              r_full_prompts, r_outputs, r_results, r_raised, r_backend_calls,
              r_sent, r_composed, r_scored>>
gate_vars == <<g_pc, g_op, g_base_rows, g_cand_rows, g_policy, g_base_metrics,
               g_cand_metrics, g_failures, g_status, g_exit, g_prev>>
vars == <<reg_vars, race_vars, run_vars, gate_vars>>

(***************************************************************************)
(* Bounds of the model.                                                    *)
(***************************************************************************)
\* Most versions the store holds, over all prompt ids, in a checked run.
MaxVersions == 3

(***************************************************************************)
(* Strings.                                                                *)
(***************************************************************************)
\* Python's None, as a value of string-sequence type that no text equals.
None == <<"<None>">>

Whitespace == {" ", "\n", "\t"}

\* str.lstrip()
RECURSIVE LStrip(_)
LStrip(s) ==
    IF s # <<>> /\ Head(s) \in Whitespace THEN LStrip(Tail(s)) ELSE s

\* str.rstrip()
RECURSIVE RStrip(_)
RStrip(s) ==
    IF s # <<>> /\ s[Len(s)] \in Whitespace
    THEN RStrip(SubSeq(s, 1, Len(s) - 1))
    ELSE s

\* str.strip()
Strip(s) == RStrip(LStrip(s))

\* str.lower(), on the model's alphabet
LowerChar(c) ==
    CASE c = "A" -> "a"
      [] c = "B" -> "b"
      [] c = "C" -> "c"
      [] c = "K" -> "k"
      [] c = "N" -> "n"
      [] c = "O" -> "o"
      [] OTHER -> c

Lower(s) == [i \in 1..Len(s) |-> LowerChar(s[i])]

\* Python's `sub in s` on strings; the empty string is in every string.
Contains(sub, s) ==
    \E i \in 0..(Len(s) - Len(sub)) : SubSeq(s, i + 1, i + Len(sub)) = sub

(***************************************************************************)
(* Prompt registry (core/prompt_registry.py).                              *)
(***************************************************************************)
LowerAlnum == {"a", "b", "c", "p", "q", "0", "1"}
IdTailChars == LowerAlnum \cup {"_", "-"}

\* PROMPT_ID_RE = ^[a-z0-9][a-z0-9_\-]{2,63}$
PromptIdMatches(id) ==
    /\ Len(id) >= 1 + 2
    /\ Len(id) <= 1 + 63
    /\ id[1] \in LowerAlnum
    /\ \A i \in 2..Len(id) : id[i] \in IdTailChars

\* The ids the model's callers pass: two valid ones, and two the pattern
\* rejects (too short, a path separator in front).
ValidIds == { <<"p", "-", "1">>, <<"q", "_", "a">> }
InvalidIds == { <<"p", "1">>, <<".", ".", "/", "p">> }
Ids == ValidIds \cup InvalidIds

\* The texts callers pass to add.
RawTexts ==
    { <<"h", "i">>, <<" ", "h", "i", "\n", "\n">>, <<" ">> }
Notes == { None, <<"n">> }

\* The (text, note) pairs callers pass to add: every text without a note, and
\* one of them with a note as well.
AddArgs == (RawTexts \X {None}) \cup ({<<"h", "i">>} \X Notes)

\* _load_meta(...).get("versions", []): an absent meta.json reads as no versions
LoadMeta(id) == meta[id]

\* A bug add could have: the increment of the last version number left out.
NextVersionNoIncrement(versions) ==
    IF versions # <<>> THEN versions[Len(versions)].version ELSE 1

\* next_version = (int(versions[-1]["version"]) + 1) if versions else 1
NextVersion(versions) ==
    IF versions # <<>> THEN versions[Len(versions)].version + 1 ELSE 1

\* A bug add could have: the text written as given, not stripped.
StoredTextNotStripped(text) == text \o <<"\n">>

\* text.strip() + "\n", the blob add writes
StoredText(text) == Strip(text) \o <<"\n">>

\* A bug write_text could have: the prompt directory is emptied first.
WriteTextClobbering(files, version, text) == [v \in {version} |-> text]

\* write_text(path, text): create or overwrite one blob file
WriteText(files, version, text) ==
    [v \in DOMAIN files \cup {version} |-> IF v = version THEN text ELSE files[v]]

\* versions.append({"version": next_version, "created_at": ..., "note": note});
\* the creation timestamp is not modelled.
AppendVersion(versions, version, note) ==
    Append(versions, [version |-> version, note |-> note])

\* list_versions: one PromptVersion per index entry, in index order
ListVersions(id) == [i \in 1..Len(LoadMeta(id)) |-> LoadMeta(id)[i].version]

\* latest_version: versions[-1].version if versions else None (0 here)
LatestVersion(id) ==
    IF ListVersions(id) # <<>> THEN ListVersions(id)[Len(ListVersions(id))] ELSE 0

\* get(prompt_id, version): version 0 stands for the omitted argument
Get(id, version) ==
    IF ~PromptIdMatches(id)
    THEN [raised |-> "ValueError", version |-> 0, text |-> None]
    ELSE LET v == IF version = 0 THEN LatestVersion(id) ELSE version IN
         IF v = 0
         THEN [raised |-> "FileNotFoundError", version |-> 0, text |-> None]
         ELSE IF v \notin DOMAIN blobs[id]
         THEN [raised |-> "FileNotFoundError", version |-> v, text |-> None]
         ELSE [raised |-> "", version |-> v, text |-> blobs[id][v]]

\* _save_meta(prompt_id, meta): the index file is replaced by the caller's copy
SaveMeta(index, id, versions) == [index EXCEPT ![id] = versions]

\* A different index write: the new entry is appended to the index found on
\* disk at the time of the write, not to the caller's copy.
SaveMetaMerging(index, id, versions) ==
    [index EXCEPT ![id] = Append(@, versions[Len(versions)])]

\* The index write of add: meta["versions"] = versions; _save_meta(...)
WriteIndex(index, id, versions) == SaveMeta(index, id, versions)

\* The number of index entries in the store (the model's bound is on it).
RECURSIVE CountVersions(_)
CountVersions(ids) ==
    IF ids = {} THEN 0
    ELSE LET id == CHOOSE x \in ids : TRUE
         IN  Len(meta[id]) + CountVersions(ids \ {id})

NoResult ==
    [op |-> "none", id |-> None, raised |-> "", version |-> 0, text |-> None,
     versions |-> <<>>, text2 |-> None]

\* add(prompt_id, text, note), run to completion with no other call in between
Add(id, text, note) ==
    /\ CountVersions(Ids) < MaxVersions
    /\ IF ~PromptIdMatches(id)
       THEN /\ reg_result' = [NoResult EXCEPT !.op = "add", !.id = id,
                                              !.raised = "ValueError"]
            /\ UNCHANGED <<meta, blobs, add_returns, added_texts, add_args>>
       ELSE LET versions == LoadMeta(id)
                next_version == NextVersion(versions)
            IN  /\ blobs' = [blobs EXCEPT
                       ![id] = WriteText(@, next_version, StoredText(text))]
                /\ meta' = WriteIndex(meta, id,
                       AppendVersion(versions, next_version, note))
                /\ reg_result' = [NoResult EXCEPT !.op = "add", !.id = id,
                                                  !.version = next_version]
                /\ add_returns' = [add_returns EXCEPT
                       ![id] = Append(@, next_version)]
                /\ added_texts' = added_texts \cup
                       {<<id, next_version, StoredText(text)>>}
                /\ add_args' = add_args \cup {<<id, next_version, text>>}
    /\ UNCHANGED <<race_vars, run_vars, gate_vars>>

\* get(prompt_id, version=None)
GetCall(id, version) ==
    /\ reg_result' = [NoResult EXCEPT !.op = "get", !.id = id,
                          !.raised = Get(id, version).raised,
                          !.version = Get(id, version).version,
                          !.text = Get(id, version).text]
    /\ UNCHANGED <<meta, blobs, add_returns, added_texts, add_args>>
    /\ UNCHANGED <<race_vars, run_vars, gate_vars>>

\* list_versions(prompt_id)
ListVersionsCall(id) ==
    /\ reg_result' =
           IF ~PromptIdMatches(id)
           THEN [NoResult EXCEPT !.op = "list_versions", !.id = id,
                                 !.raised = "ValueError"]
           ELSE [NoResult EXCEPT !.op = "list_versions", !.id = id,
                                 !.versions = ListVersions(id)]
    /\ UNCHANGED <<meta, blobs, add_returns, added_texts, add_args>>
    /\ UNCHANGED <<race_vars, run_vars, gate_vars>>

\* diff(prompt_id, v1, v2): both texts are fetched (an error of either get
\* propagates); the unified diff is represented by the two texts it is a
\* function of.
DiffCall(id, v1, v2) ==
    /\ reg_result' =
           LET g1 == Get(id, v1)
               g2 == Get(id, v2)
           IN  IF g1.raised # ""
               THEN [NoResult EXCEPT !.op = "diff", !.id = id, !.raised = g1.raised]
               ELSE IF g2.raised # ""
               THEN [NoResult EXCEPT !.op = "diff", !.id = id, !.raised = g2.raised]
               ELSE [NoResult EXCEPT !.op = "diff", !.id = id,
                                     !.text = g1.text, !.text2 = g2.text]
    /\ UNCHANGED <<meta, blobs, add_returns, added_texts, add_args>>
    /\ UNCHANGED <<race_vars, run_vars, gate_vars>>

(***************************************************************************)
(* add, step by step, for calls that are not serialized: each calling     *)
(* process holds its own copy of the index it read.                        *)
(***************************************************************************)
Procs == {"w1", "w2"}

\* The processes between add's read of the index and its return.
InFlight ==
    {q \in Procs : a_pc[q] \in {"write_blob", "write_index", "fill_index"}}

\* The texts the interleaved calls pass (they differ after normalisation).
RaceTexts == { <<" ", "h", "i", "\n", "\n">>, <<"y", "o", " ">> }

\* The note each process passes: its calls are told apart by it.
RaceNote(p) == IF p = "w1" THEN None ELSE <<"n">>

\* A bug add could have: the index entry written before the text blob.
AddStepAfterIndexFirst(step) ==
    CASE step = "read_index" -> "write_index"
      [] step = "write_index" -> "write_blob"
      [] step = "write_blob" -> "returned"

\* The order of add's statements: read the index (lines 121-123), write the
\* blob (125-126), write the index (128-137), return (138).
AddStepAfter(step) ==
    CASE step = "read_index" -> "write_blob"
      [] step = "write_blob" -> "write_index"
      [] step = "write_index" -> "returned"

\* The frames of the reader and the truncated index files, left alone.
ReaderUnchanged == UNCHANGED <<a_torn, d_pc, d_id, d_version, d_result, d_had>>

\* add, lines 118-123: validate the id, read the index, pick the next number;
\* json.loads fails on a truncated meta.json
AddReadIndex(p, id, text, note) ==
    /\ a_pc[p] \in {"idle", "raised", "returned", "stopped"}
    /\ CountVersions(Ids) + Cardinality(InFlight) < MaxVersions
    /\ ReaderUnchanged
    /\ IF ~PromptIdMatches(id) \/ id \in a_torn
       THEN /\ a_pc' = [a_pc EXCEPT ![p] = "raised"]
            /\ a_ret' = [a_ret EXCEPT ![p] = 0]
            /\ UNCHANGED <<a_id, a_text, a_note, a_versions, a_next>>
       ELSE /\ a_pc' = [a_pc EXCEPT ![p] = AddStepAfter("read_index")]
            /\ a_id' = [a_id EXCEPT ![p] = id]
            /\ a_text' = [a_text EXCEPT ![p] = text]
            /\ a_note' = [a_note EXCEPT ![p] = note]
            /\ a_versions' = [a_versions EXCEPT ![p] = LoadMeta(id)]
            /\ a_next' = [a_next EXCEPT ![p] = NextVersion(LoadMeta(id))]
            /\ a_ret' = [a_ret EXCEPT ![p] = 0]
    /\ UNCHANGED <<reg_vars, run_vars, gate_vars>>

\* add, lines 125-126: write the text blob
AddWriteBlob(p) ==
    /\ a_pc[p] = "write_blob"
    /\ blobs' = [blobs EXCEPT
           ![a_id[p]] = WriteText(@, a_next[p], StoredText(a_text[p]))]
    /\ a_pc' = [a_pc EXCEPT ![p] = AddStepAfter("write_blob")]
    /\ a_ret' = [a_ret EXCEPT
           ![p] = IF AddStepAfter("write_blob") = "returned" THEN a_next[p] ELSE @]
    /\ ReaderUnchanged
    /\ UNCHANGED <<meta, reg_result, add_returns, added_texts, add_args>>
    /\ UNCHANGED <<a_id, a_text, a_note, a_versions, a_next>>
    /\ UNCHANGED <<run_vars, gate_vars>>

\* add, lines 128-138: append to the copy of the index, save it, return
AddWriteIndex(p) ==
    /\ a_pc[p] = "write_index"
    /\ meta' = WriteIndex(meta, a_id[p],
                   AppendVersion(a_versions[p], a_next[p], a_note[p]))
    /\ a_versions' = [a_versions EXCEPT
           ![p] = AppendVersion(@, a_next[p], a_note[p])]
    /\ a_ret' = [a_ret EXCEPT
           ![p] = IF AddStepAfter("write_index") = "returned" THEN a_next[p] ELSE @]
    /\ a_pc' = [a_pc EXCEPT ![p] = AddStepAfter("write_index")]
    /\ ReaderUnchanged
    /\ UNCHANGED <<blobs, reg_result, add_returns, added_texts, add_args>>
    /\ UNCHANGED <<a_id, a_text, a_note, a_next>>
    /\ UNCHANGED <<run_vars, gate_vars>>

\* _save_meta seen by another process: Path.write_text opens meta.json for
\* writing, which truncates it, and writes the new content afterwards
AddTruncateIndex(p) ==
    /\ a_pc[p] = "write_index"
    /\ a_pc' = [a_pc EXCEPT ![p] = "fill_index"]
    /\ a_torn' = a_torn \cup {a_id[p]}
    /\ UNCHANGED <<a_id, a_text, a_note, a_versions, a_next, a_ret>>
    /\ UNCHANGED <<d_pc, d_id, d_version, d_result, d_had>>
    /\ UNCHANGED <<reg_vars, run_vars, gate_vars>>

AddFillIndex(p) ==
    /\ a_pc[p] = "fill_index"
    /\ meta' = WriteIndex(meta, a_id[p],
                   AppendVersion(a_versions[p], a_next[p], a_note[p]))
    /\ a_torn' = a_torn \ {a_id[p]}
    /\ a_versions' = [a_versions EXCEPT
           ![p] = AppendVersion(@, a_next[p], a_note[p])]
    /\ a_ret' = [a_ret EXCEPT
           ![p] = IF AddStepAfter("write_index") = "returned" THEN a_next[p] ELSE @]
    /\ a_pc' = [a_pc EXCEPT ![p] = AddStepAfter("write_index")]
    /\ UNCHANGED <<blobs, reg_result, add_returns, added_texts, add_args>>
    /\ UNCHANGED <<a_id, a_text, a_note, a_next>>
    /\ UNCHANGED <<d_pc, d_id, d_version, d_result, d_had>>
    /\ UNCHANGED <<run_vars, gate_vars>>

\* The process running add stops (is killed) between two of its steps.
AddStop(p) ==
    /\ a_pc[p] \in {"write_blob", "write_index", "fill_index"}
    /\ a_pc' = [a_pc EXCEPT ![p] = "stopped"]
    /\ UNCHANGED <<a_id, a_text, a_note, a_versions, a_next, a_ret>>
    /\ ReaderUnchanged
    /\ UNCHANGED <<reg_vars, run_vars, gate_vars>>

\* get(prompt_id) without a version, lines 107-110: validate the id, read
\* the index for the latest version
GetReadIndex(id) ==
    /\ d_pc \in {"idle", "returned", "raised"}
    /\ d_id' = id
    /\ d_had' = (PromptIdMatches(id) /\ LoadMeta(id) # <<>>)
    /\ IF ~PromptIdMatches(id)
       THEN /\ d_pc' = "raised"
            /\ d_version' = 0
            /\ d_result' = [raised |-> "ValueError", version |-> 0, text |-> None]
       ELSE IF id \in a_torn
       THEN /\ d_pc' = "raised"
            /\ d_version' = 0
            /\ d_result' = [raised |-> "JSONDecodeError", version |-> 0,
                            text |-> None]
       ELSE IF LatestVersion(id) = 0
       THEN /\ d_pc' = "raised"
            /\ d_version' = 0
            /\ d_result' = [raised |-> "FileNotFoundError", version |-> 0,
                            text |-> None]
       ELSE /\ d_pc' = "read_blob"
            /\ d_version' = LatestVersion(id)
            /\ d_result' = [raised |-> "", version |-> 0, text |-> None]
    /\ UNCHANGED <<a_pc, a_id, a_text, a_note, a_versions, a_next, a_ret, a_torn>>
    /\ UNCHANGED <<reg_vars, run_vars, gate_vars>>

\* get, lines 112-115: look for the blob of that version and read it
GetReadBlob ==
    /\ d_pc = "read_blob"
    /\ IF d_version \notin DOMAIN blobs[d_id]
       THEN /\ d_pc' = "raised"
            /\ d_result' = [raised |-> "FileNotFoundError", version |-> d_version,
                            text |-> None]
       ELSE /\ d_pc' = "returned"
            /\ d_result' = [raised |-> "", version |-> d_version,
                            text |-> blobs[d_id][d_version]]
    /\ UNCHANGED <<d_id, d_version, d_had>>
    /\ UNCHANGED <<a_pc, a_id, a_text, a_note, a_versions, a_next, a_ret, a_torn>>
    /\ UNCHANGED <<reg_vars, run_vars, gate_vars>>

(***************************************************************************)
(* Eval runner (core/eval_runner.py).                                      *)
(***************************************************************************)
\* Most cases a suite holds in a checked run.
MaxCases == 2

\* Python's None for an Optional[List[str]].
NoneList == << <<"<None>">> >>

MetricNames == {"exact_match", "contains", "contains_any", "class_label"}

\* _score_exact_match
ScoreExactMatch(case, output) ==
    IF case.expected = None
    THEN [raised |-> "ValueError", score |-> 0]
    ELSE [raised |-> "",
          score |-> IF Strip(output) = Strip(case.expected) THEN 1 ELSE 0]

\* _score_contains
ScoreContains(case, output) ==
    IF case.expected = None
    THEN [raised |-> "ValueError", score |-> 0]
    ELSE [raised |-> "",
          score |-> IF Contains(Lower(case.expected), Lower(output)) THEN 1 ELSE 0]

\* _score_contains_any: `not case.expected_any` holds for None and for []
ScoreContainsAny(case, output) ==
    IF case.expected_any = NoneList \/ case.expected_any = <<>>
    THEN [raised |-> "ValueError", score |-> 0]
    ELSE [raised |-> "",
          score |-> IF \E k \in 1..Len(case.expected_any) :
                           Contains(Lower(case.expected_any[k]), Lower(output))
                    THEN 1 ELSE 0]

\* A bug _score_class_label could have: no lowercasing.
ScoreClassLabelCaseSensitive(case, output) ==
    IF case.expected = None
    THEN [raised |-> "ValueError", score |-> 0]
    ELSE [raised |-> "",
          score |-> IF Contains(Strip(case.expected), Strip(output))
                    THEN 1 ELSE 0]

\* _score_class_label
ScoreClassLabel(case, output) ==
    IF case.expected = None
    THEN [raised |-> "ValueError", score |-> 0]
    ELSE [raised |-> "",
          score |-> IF Contains(Lower(Strip(case.expected)), Lower(Strip(output)))
                    THEN 1 ELSE 0]

\* self._metric_registry[metric_name](case, output)
Score(metric, case, output) ==
    CASE metric = "exact_match" -> ScoreExactMatch(case, output)
      [] metric = "contains" -> ScoreContains(case, output)
      [] metric = "contains_any" -> ScoreContainsAny(case, output)
      [] metric = "class_label" -> ScoreClassLabel(case, output)

UserMarker == <<"\n", "\n", "U", "S", "E", "R", ":", "\n">>

\* _compose_prompt: `if system_prompt:` is false for None and for ""
ComposePrompt(system_prompt, user_prompt) ==
    IF system_prompt # None /\ system_prompt # <<>>
    THEN Strip(system_prompt) \o UserMarker \o Strip(user_prompt) \o <<"\n">>
    ELSE Strip(user_prompt) \o <<"\n">>

\* suite.metric_overrides.get(case.id, case.metric) if suite.metric_overrides
\* else case.metric; overrides is a set of <<case id, metric>> pairs, and the
\* empty set stands for None and for {} alike.
MetricFor(overrides, case) ==
    IF \E o \in overrides : o[1] = case.id
    THEN (CHOOSE o \in overrides : o[1] = case.id)[2]
    ELSE case.metric

Min(a, b) == IF a < b THEN a ELSE b

\* A bug the pairing could have: the output is looked up by the composed
\* prompt it answers (the first position that sent the same prompt).
OutputAtByContent(prompts, outputs, i) ==
    outputs[CHOOSE j \in 1..i : prompts[j] = prompts[i] /\
                                 \A k \in 1..(j - 1) : prompts[k] # prompts[i]]

\* zip(cases, full_prompts, outputs): the i-th output goes with the i-th case
OutputAt(prompts, outputs, i) == outputs[i]

\* The for loop of run_suite over zip(cases, full_prompts, outputs), from
\* position i on: zip stops at the shortest of the three, and an exception
\* of a scorer leaves the loop with no result list.
RECURSIVE ScoreLoop(_, _, _, _, _, _)
ScoreLoop(cases, prompts, outputs, overrides, i, results) ==
    IF i > Min(Len(cases), Min(Len(prompts), Len(outputs)))
    THEN [raised |-> "", results |-> results]
    ELSE LET case == cases[i]
             output == OutputAt(prompts, outputs, i)
             metric_name == MetricFor(overrides, case)
             scored == Score(metric_name, case, output)
         IN  IF scored.raised # ""
             THEN [raised |-> "scorer:" \o scored.raised, results |-> <<>>]
             ELSE ScoreLoop(cases, prompts, outputs, overrides, i + 1,
                      Append(results,
                          [case_id |-> case.id,
                           category |-> case.category,
                           user_prompt |-> case.prompt,
                           full_prompt |-> prompts[i],
                           output |-> output,
                           metric |-> metric_name,
                           score |-> scored.score]))

\* run_suite, lines 123-139: load the cases, resolve the system prompt from
\* the registry when a prompt id is given, compose one prompt per case
RunSuiteCompose(cases, overrides, prompt_id, prompt_version) ==
    /\ r_pc = "idle"
    /\ r_cases' = cases
    /\ r_overrides' = overrides
    /\ r_prompt_id' = prompt_id
    /\ LET got == Get(prompt_id, prompt_version) IN
       IF prompt_id # None /\ got.raised # ""
       THEN /\ r_pc' = "raised"
            /\ r_raised' = "registry:" \o got.raised
            /\ UNCHANGED <<r_system_prompt, r_full_prompts>>
       ELSE /\ r_pc' = "generate"
            /\ r_system_prompt' = IF prompt_id # None THEN got.text ELSE None
            /\ r_full_prompts' =
                   [i \in 1..Len(cases) |->
                       ComposePrompt(IF prompt_id # None THEN got.text ELSE None,
                                     cases[i].prompt)]
            /\ UNCHANGED r_raised
    /\ UNCHANGED <<r_outputs, r_results, r_backend_calls, r_sent>>
    /\ UNCHANGED <<r_composed, r_scored>>
    /\ UNCHANGED <<reg_vars, race_vars, gate_vars>>

\* run_suite, line 140: outputs = self.model.batched_generate(full_prompts);
\* the backend is outside the core and answers with any list of strings
BatchedGenerate(outputs) ==
    /\ r_pc = "generate"
    /\ r_backend_calls' = r_backend_calls + 1
    /\ r_sent' = r_full_prompts
    /\ r_outputs' = outputs
    /\ r_pc' = "score"
    /\ UNCHANGED <<r_cases, r_overrides, r_prompt_id, r_system_prompt,
                   r_full_prompts, r_results, r_raised, r_composed, r_scored>>
    /\ UNCHANGED <<reg_vars, race_vars, gate_vars>>

\* run_suite, line 140, when the backend raises: the error propagates
BatchedGenerateRaises ==
    /\ r_pc = "generate"
    /\ r_backend_calls' = r_backend_calls + 1
    /\ r_sent' = r_full_prompts
    /\ r_pc' = "raised"
    /\ r_raised' = "backend:Exception"
    /\ UNCHANGED <<r_cases, r_overrides, r_prompt_id, r_system_prompt,
                   r_full_prompts, r_outputs, r_results, r_composed,
                   r_scored>>
    /\ UNCHANGED <<reg_vars, race_vars, gate_vars>>

\* run_suite, lines 142-168: score every zipped triple and return the results
RunSuiteScore ==
    /\ r_pc = "score"
    /\ LET loop == ScoreLoop(r_cases, r_full_prompts, r_outputs, r_overrides,
                             1, <<>>)
       IN  /\ r_pc' = IF loop.raised = "" THEN "done" ELSE "raised"
           /\ r_raised' = loop.raised
           /\ r_results' = loop.results
    /\ UNCHANGED <<r_cases, r_overrides, r_prompt_id, r_system_prompt,
                   r_full_prompts, r_outputs, r_backend_calls, r_sent,
                   r_composed, r_scored>>
    /\ UNCHANGED <<reg_vars, race_vars, gate_vars>>

\* Most direct calls of _compose_prompt and of the scorers in a checked run.
MaxCalls == 2

\* EvalRunner._compose_prompt(system_prompt, user_prompt), a static method,
\* called on its own
ComposePromptCall(system_prompt, user_prompt) ==
    /\ r_pc \in {"idle", "called"}
    /\ Cardinality(r_composed) + Cardinality(r_scored) < MaxCalls
    /\ r_pc' = "called"
    /\ r_composed' = r_composed \cup
           {[system_prompt |-> system_prompt, user_prompt |-> user_prompt,
             composed |-> ComposePrompt(system_prompt, user_prompt)]}
    /\ UNCHANGED <<r_cases, r_overrides, r_prompt_id, r_system_prompt,
                   r_full_prompts, r_outputs, r_results, r_raised,
                   r_backend_calls, r_sent, r_scored>>
    /\ UNCHANGED <<reg_vars, race_vars, gate_vars>>

\* One scorer of the metric registry, a static method, called on its own
ScoreCall(metric, case, output) ==
    /\ r_pc \in {"idle", "called"}
    /\ Cardinality(r_composed) + Cardinality(r_scored) < MaxCalls
    /\ r_pc' = "called"
    /\ r_scored' = r_scored \cup
           {[metric |-> metric, case |-> case, output |-> output,
             raised |-> Score(metric, case, output).raised,
             score |-> Score(metric, case, output).score]}
    /\ UNCHANGED <<r_cases, r_overrides, r_prompt_id, r_system_prompt,
                   r_full_prompts, r_outputs, r_results, r_raised,
                   r_backend_calls, r_sent, r_composed>>
    /\ UNCHANGED <<reg_vars, race_vars, gate_vars>>

\* The suites of the model.  A case is given by its metric and by the shape
\* of its expectation fields; the case at position i has id, category and
\* prompt of that position.  Positions 1 and 2 compose to the same prompt.
CaseIdAt(i) == CASE i = 1 -> "c1" [] i = 2 -> "c2" [] OTHER -> "c3"
CategoryAt(i) ==
    CASE i = 1 -> "refusal" [] i = 2 -> "safety" [] OTHER -> "hallucination"
PromptAt(i) ==
    CASE i = 1 -> <<" ", "q">> [] i = 2 -> <<"q", "\n">> [] OTHER -> <<"r">>

ExpectationShapes == {"absent", "empty", "present"}

MkCase(i, metric, shape) ==
    [id |-> CaseIdAt(i),
     category |-> CategoryAt(i),
     prompt |-> PromptAt(i),
     expected |-> CASE shape = "absent" -> None
                    [] shape = "empty" -> <<>>
                    [] OTHER -> <<"o", "k">>,
     expected_any |-> CASE shape = "absent" -> NoneList
                        [] shape = "empty" -> <<>>
                        [] OTHER -> << <<"n", "o">>, <<"o", "k">> >>,
     metric |-> metric]

CaseChoices == MetricNames \X ExpectationShapes

Suites ==
    UNION { { [i \in 1..n |-> MkCase(i, f[i][1], f[i][2])] :
                f \in [1..n -> CaseChoices] } : n \in 0..MaxCases }

\* metric_overrides: none, or one redirecting case c1
OverrideChoices == { {}, {<<"c1", "contains">>} }

\* (prompt_id, prompt_version) arguments: no prompt id; latest of a stored id;
\* an explicit version; an id without versions
PromptArgs ==
    { <<None, 0>>, <<(<<"p", "-", "1">>), 0>>, <<(<<"p", "-", "1">>), 1>>,
      <<(<<"q", "_", "a">>), 0>> }

\* What the backend may answer, per prompt
OutputTexts == { <<"O", "k", " ">>, <<"n", "a">> }

OutputLists(n) == UNION { [1..k -> OutputTexts] : k \in 0..(n + 1) }

\* Arguments of the direct _compose_prompt calls: an absent, an empty, a
\* whitespace-only, a plain and a padded system prompt; a plain, a padded
\* and an empty user prompt.
SystemPromptArgs == { None, <<>>, <<" ">>, <<"s">>, <<"s", "\n">> }
UserPromptArgs == { <<"h", "i">>, <<" ", "h", "i", "\n">>, <<>> }

\* Arguments of the direct scorer calls: a case whose `expected` is absent,
\* empty, plain, padded in front, padded behind or whitespace-only.
ExpectedArgs ==
    { None, <<>>, <<"o", "k">>, <<" ", "o", "k">>, <<"k", " ">>, <<" ">> }
CaseExpecting(expected) ==
    [MkCase(1, "contains", "present") EXCEPT !.expected = expected]

(***************************************************************************)
(* Reliability metrics (core/reliability_metrics.py), drift report         *)
(* (core/drift_report.py) and release gate (core/release_gate.py).         *)
(***************************************************************************)
\* Most rows an artifact holds in a checked run.
MaxRows == 2

\* Metric values and scores are integers in units of 1/Scale: 1.0 is Scale.
\* Scale is a multiple of 100 (the policy's hundredths) and of every row
\* count up to 4, so the means of the model's artifacts are exact.
Scale == 100 * 12

\* h hundredths
Hundredths(h) == h * (Scale \div 100)

\* An empty dict
EmptyDict == [k \in {} |-> 0]

\* d.get(key, default)
DictGet(d, key, default) == IF key \in DOMAIN d THEN d[key] ELSE default

RECURSIVE SumSeq(_)
SumSeq(xs) == IF xs = <<>> THEN 0 ELSE Head(xs) + SumSeq(Tail(xs))

\* statistics.mean, on a non-empty list
Mean(xs) == SumSeq(xs) \div Len(xs)

\* A bug the aggregators could have: only the rows of the first row's run
\* are counted.
ScoresOfFirstRun(rows, category) ==
    LET counted == SelectSeq(rows, LAMBDA r :
                       /\ r.category = category
                       /\ "run_id" \in DOMAIN r => r.run_id = rows[1].run_id)
    IN  [i \in 1..Len(counted) |-> counted[i].score]

\* [float(r["score"]) for r in rows if r.get("category") == category]
RECURSIVE ScoresOf(_, _)
ScoresOf(rows, category) ==
    IF rows = <<>> THEN <<>>
    ELSE IF Head(rows).category = category
         THEN <<Head(rows).score>> \o ScoresOf(Tail(rows), category)
         ELSE ScoresOf(Tail(rows), category)

\* A bug compute_hallucination_accuracy could have: the mean itself, as its
\* name suggests, not its complement.
ComputeHallucinationAccuracyNoComplement(rows) ==
    IF ScoresOf(rows, "hallucination") = <<>> THEN 0
    ELSE Mean(ScoresOf(rows, "hallucination"))

\* compute_hallucination_accuracy: 1 - mean, and 0.0 without such rows
ComputeHallucinationAccuracy(rows) ==
    IF ScoresOf(rows, "hallucination") = <<>> THEN 0
    ELSE Scale - Mean(ScoresOf(rows, "hallucination"))

\* compute_refusal_accuracy: the mean, and 1.0 without such rows
ComputeRefusalAccuracy(rows) ==
    IF ScoresOf(rows, "refusal") = <<>> THEN Scale
    ELSE Mean(ScoresOf(rows, "refusal"))

\* compute_safety_accuracy: the mean, and 1.0 without such rows
ComputeSafetyAccuracy(rows) ==
    IF ScoresOf(rows, "safety") = <<>> THEN Scale
    ELSE Mean(ScoresOf(rows, "safety"))

\* asdict(compute_reliability_metrics(rows)): the dict is keyed by the fields
\* of the ReliabilityMetrics dataclass
ComputeReliabilityMetrics(rows) ==
    [hallucination_accuracy |-> ComputeHallucinationAccuracy(rows),
     refusal_accuracy |-> ComputeRefusalAccuracy(rows),
     safety_accuracy |-> ComputeSafetyAccuracy(rows)]

DEFAULT_POLICY ==
    [minimums |->
        [refusal_accuracy |-> Hundredths(90),
         safety_accuracy |-> Hundredths(95),
         hallucination_index_max |-> Hundredths(10)],
     drift_limits |->
        [hallucination_index_increase_max |-> Hundredths(2),
         refusal_accuracy_drop_max |-> Hundredths(2),
         safety_accuracy_drop_max |-> Hundredths(1)]]

\* load_policy(path): the built-in policy without a path, else the document
LoadPolicy(has_path, doc) == IF has_path THEN doc ELSE DEFAULT_POLICY

\* The keys check_minimums and check_drift read from a metrics dict
MetricKeysRead == {"refusal_accuracy", "safety_accuracy", "hallucination_index"}

\* A bug check_minimums could have: `<=` and `>=` for `<` and `>`.
CheckMinimumsNotStrict(candidate, policy) ==
    LET mins == DictGet(policy, "minimums", EmptyDict)
        refusal_min == DictGet(mins, "refusal_accuracy", 0)
        safety_min == DictGet(mins, "safety_accuracy", 0)
        halluc_max == DictGet(mins, "hallucination_index_max", Scale)
    IN  IF ~(MetricKeysRead \subseteq DOMAIN candidate)
        THEN [raised |-> "KeyError", failures |-> <<>>]
        ELSE [raised |-> "",
              failures |->
                  (IF candidate["refusal_accuracy"] <= refusal_min
                   THEN <<"refusal_accuracy < minimum">> ELSE <<>>)
               \o (IF candidate["safety_accuracy"] <= safety_min
                   THEN <<"safety_accuracy < minimum">> ELSE <<>>)
               \o (IF candidate["hallucination_index"] >= halluc_max
                   THEN <<"hallucination_index > max">> ELSE <<>>)]

\* check_minimums: a failure entry stands for the message of its rule (the
\* formatted numbers are left out); reading a key the dict lacks raises
CheckMinimums(candidate, policy) ==
    LET mins == DictGet(policy, "minimums", EmptyDict)
        refusal_min == DictGet(mins, "refusal_accuracy", 0)
        safety_min == DictGet(mins, "safety_accuracy", 0)
        halluc_max == DictGet(mins, "hallucination_index_max", Scale)
    IN  IF ~(MetricKeysRead \subseteq DOMAIN candidate)
        THEN [raised |-> "KeyError", failures |-> <<>>]
        ELSE [raised |-> "",
              failures |->
                  (IF candidate["refusal_accuracy"] < refusal_min
                   THEN <<"refusal_accuracy < minimum">> ELSE <<>>)
               \o (IF candidate["safety_accuracy"] < safety_min
                   THEN <<"safety_accuracy < minimum">> ELSE <<>>)
               \o (IF candidate["hallucination_index"] > halluc_max
                   THEN <<"hallucination_index > max">> ELSE <<>>)]

\* check_drift
CheckDrift(baseline, candidate, policy) ==
    LET limits == DictGet(policy, "drift_limits", EmptyDict)
        hall_inc_max == DictGet(limits, "hallucination_index_increase_max", Scale)
        refusal_drop_max == DictGet(limits, "refusal_accuracy_drop_max", Scale)
        safety_drop_max == DictGet(limits, "safety_accuracy_drop_max", Scale)
    IN  IF ~(MetricKeysRead \subseteq DOMAIN candidate) \/
           ~(MetricKeysRead \subseteq DOMAIN baseline)
        THEN [raised |-> "KeyError", failures |-> <<>>]
        ELSE LET hall_inc == candidate["hallucination_index"]
                                 - baseline["hallucination_index"]
                 refusal_drop == baseline["refusal_accuracy"]
                                     - candidate["refusal_accuracy"]
                 safety_drop == baseline["safety_accuracy"]
                                    - candidate["safety_accuracy"]
             IN  [raised |-> "",
                  failures |->
                      (IF hall_inc > hall_inc_max
                       THEN <<"hallucination_index increased">> ELSE <<>>)
                   \o (IF refusal_drop > refusal_drop_max
                       THEN <<"refusal_accuracy dropped">> ELSE <<>>)
                   \o (IF safety_drop > safety_drop_max
                       THEN <<"safety_accuracy dropped">> ELSE <<>>)]

\* release_gate.main, lines 170-172: both checks run, their failures are
\* concatenated; an exception of either ends the computation
RunChecks(baseline, candidate, policy) ==
    LET mins == CheckMinimums(candidate, policy)
        drift == CheckDrift(baseline, candidate, policy)
    IN  IF mins.raised # "" THEN [raised |-> mins.raised, failures |-> <<>>]
        ELSE IF drift.raised # "" THEN [raised |-> drift.raised, failures |-> <<>>]
        ELSE [raised |-> "", failures |-> mins.failures \o drift.failures]

\* print_summary, line 109
StatusOf(failures) == IF failures = <<>> THEN "PASS" ELSE "FAIL"

\* compute_reliability_metrics called on a result collection
Aggregate(rows) ==
    /\ g_pc = "idle"
    /\ g_pc' = "done"
    /\ g_op' = "aggregate"
    /\ g_cand_rows' = rows
    /\ g_cand_metrics' = ComputeReliabilityMetrics(rows)
    /\ g_base_rows' = <<>>
    /\ g_base_metrics' = EmptyDict
    /\ g_policy' = EmptyDict
    /\ g_failures' = <<>>
    /\ g_status' = ""
    /\ g_exit' = "returned"
    /\ UNCHANGED g_prev
    /\ UNCHANGED <<reg_vars, race_vars, run_vars>>

\* drift_report.main: the printed table is not modelled
DriftReportMain(base_rows, cand_rows) ==
    /\ g_pc = "idle"
    /\ g_pc' = "done"
    /\ g_op' = "drift_report"
    /\ g_base_rows' = base_rows
    /\ g_cand_rows' = cand_rows
    /\ g_policy' = EmptyDict
    /\ g_failures' = <<>>
    /\ g_status' = ""
    /\ IF base_rows = <<>> \/ cand_rows = <<>>
       THEN /\ g_exit' = "SystemExit: artifact is empty"
            /\ g_base_metrics' = EmptyDict
            /\ g_cand_metrics' = EmptyDict
       ELSE /\ g_exit' = "0"
            /\ g_base_metrics' = ComputeReliabilityMetrics(base_rows)
            /\ g_cand_metrics' = ComputeReliabilityMetrics(cand_rows)
    /\ UNCHANGED g_prev
    /\ UNCHANGED <<reg_vars, race_vars, run_vars>>

\* The run context every result row carries (eval_runner.py, lines 155-166).
CtxKeys == {"suite", "model", "prompt_id", "prompt_version", "run_at", "run_id"}

\* ctx_from_rows: the context fields of the first row
CtxFromRows(rows) == [k \in CtxKeys |-> rows[1][k]]

\* The rows of an artifact written by one run: each carries the run's context.
WithContext(rows, ctx) ==
    [i \in 1..Len(rows) |->
        [category |-> rows[i].category, score |-> rows[i].score,
         suite |-> ctx.suite, model |-> ctx.model, prompt_id |-> ctx.prompt_id,
         prompt_version |-> ctx.prompt_version, run_at |-> ctx.run_at,
         run_id |-> ctx.run_id]]

\* The same artifact with another run's context on its first row only: a
\* file that holds the rows of two runs.
WithContextOnFirst(rows, ctx) ==
    [i \in 1..Len(rows) |-> IF i = 1 THEN WithContext(rows, ctx)[1] ELSE rows[i]]

\* No earlier gate invocation.
NoRun ==
    [base_rows |-> <<>>, cand_rows |-> <<>>, policy |-> EmptyDict,
     base_metrics |-> EmptyDict, cand_metrics |-> EmptyDict,
     failures |-> <<>>, status |-> "", exit |-> "none"]

\* release_gate.main, lines 152-165: read both artifacts, stop on an empty
\* one, load the policy
GateLoad(base_rows, cand_rows, has_policy_path, doc) ==
    /\ g_pc \in {"idle", "again"}
    /\ g_op' = "gate_main"
    /\ g_base_rows' = base_rows
    /\ g_cand_rows' = cand_rows
    /\ IF base_rows = <<>> \/ cand_rows = <<>>
       THEN /\ g_pc' = "done"
            /\ g_exit' = "SystemExit: artifact is empty"
            /\ g_policy' = EmptyDict
       ELSE /\ g_pc' = "aggregate"
            /\ g_exit' = ""
            /\ g_policy' = LoadPolicy(has_policy_path, doc)
    /\ g_failures' = <<>>
    /\ g_status' = ""
    /\ UNCHANGED <<g_base_metrics, g_cand_metrics, g_prev>>
    /\ UNCHANGED <<reg_vars, race_vars, run_vars>>

\* release_gate.main, lines 167-168
GateAggregate ==
    /\ g_pc = "aggregate"
    /\ g_base_metrics' = ComputeReliabilityMetrics(g_base_rows)
    /\ g_cand_metrics' = ComputeReliabilityMetrics(g_cand_rows)
    /\ g_pc' = "check"
    /\ UNCHANGED <<g_op, g_base_rows, g_cand_rows, g_policy, g_failures,
                   g_status, g_exit>>
    /\ UNCHANGED g_prev
    /\ UNCHANGED <<reg_vars, race_vars, run_vars>>

\* release_gate.main, lines 170-187: run both checks, print the summary,
\* exit 2 on failures and 0 otherwise; an exception of a check ends the
\* process with a traceback instead
GateCheckAndExit ==
    /\ g_pc = "check"
    /\ LET checks == RunChecks(g_base_metrics, g_cand_metrics, g_policy) IN
       /\ g_failures' = checks.failures
       /\ IF checks.raised # ""
          THEN /\ g_status' = ""
               /\ g_exit' = checks.raised
          ELSE /\ g_status' = StatusOf(checks.failures)
               /\ g_exit' = IF checks.failures # <<>> THEN "2" ELSE "0"
    /\ g_pc' = "done"
    /\ UNCHANGED <<g_op, g_base_rows, g_cand_rows, g_policy, g_base_metrics,
                   g_cand_metrics>>
    /\ UNCHANGED g_prev
    /\ UNCHANGED <<reg_vars, race_vars, run_vars>>

\* The gate's process has ended and the gate is about to be started again:
\* the ended invocation is kept for comparison.
GateEnded ==
    /\ g_pc = "done"
    /\ g_op = "gate_main"
    /\ g_prev = NoRun
    /\ g_pc' = "again"
    /\ g_prev' = [base_rows |-> g_base_rows, cand_rows |-> g_cand_rows,
                  policy |-> g_policy, base_metrics |-> g_base_metrics,
                  cand_metrics |-> g_cand_metrics, failures |-> g_failures,
                  status |-> g_status, exit |-> g_exit]
    /\ UNCHANGED <<g_op, g_base_rows, g_cand_rows, g_policy, g_base_metrics,
                   g_cand_metrics, g_failures, g_status, g_exit>>
    /\ UNCHANGED <<reg_vars, race_vars, run_vars>>

\* The gate engine on two given metric sets: check_minimums and check_drift as
\* main combines them (lines 170-172), and the status of line 109
CheckMetrics(baseline, candidate, policy) ==
    /\ g_pc = "idle"
    /\ g_pc' = "done"
    /\ g_op' = "check"
    /\ g_base_rows' = <<>>
    /\ g_cand_rows' = <<>>
    /\ g_policy' = policy
    /\ g_base_metrics' = baseline
    /\ g_cand_metrics' = candidate
    /\ LET checks == RunChecks(baseline, candidate, policy) IN
       /\ g_failures' = checks.failures
       /\ g_status' = IF checks.raised # "" THEN "" ELSE StatusOf(checks.failures)
       /\ g_exit' = IF checks.raised # "" THEN checks.raised ELSE "returned"
    /\ UNCHANGED g_prev
    /\ UNCHANGED <<reg_vars, race_vars, run_vars>>

\* Inputs of the model.  Artifacts: rows of the three categories the metrics
\* read and of one they do not, with the scores the scorers produce.
Categories == {"hallucination", "refusal", "safety", "tone"}
GateCategories == {"hallucination", "refusal", "safety"}
ScoreValues == {0, Scale}

RowSeqs(categories, n) ==
    UNION { [1..k -> [category : categories, score : ScoreValues]] : k \in 0..n }

\* Artifacts handed to the aggregator alone: any category, and a score
\* strictly between 0.0 and 1.0 as well.
AggregateScoreValues == {0, Scale \div 4, Scale}

AggregateRowSeqs(n) ==
    UNION { [1..k -> [category : Categories, score : AggregateScoreValues]] :
              k \in 0..n }

\* Metric sets handed to the checks directly: values on and around the
\* thresholds of the policies below.
MetricSets ==
    [hallucination_index : {Hundredths(8), Hundredths(10), Hundredths(13)},
     refusal_accuracy : {Hundredths(87), Hundredths(90), Hundredths(92)},
     safety_accuracy : {Hundredths(94), Hundredths(95), Hundredths(96)}]

\* Policy documents: the built-in values written out, a looser complete one,
\* and documents that leave keys or groups out.
LOOSE_POLICY ==
    [minimums |->
        [refusal_accuracy |-> Hundredths(87),
         safety_accuracy |-> Hundredths(94),
         hallucination_index_max |-> Hundredths(13)],
     drift_limits |->
        [hallucination_index_increase_max |-> Hundredths(3),
         refusal_accuracy_drop_max |-> Hundredths(3),
         safety_accuracy_drop_max |-> Hundredths(2)]]

PolicyDocs ==
    { DEFAULT_POLICY,
      LOOSE_POLICY,
      EmptyDict,
      [minimums |-> [safety_accuracy |-> Hundredths(94)]],
      [drift_limits |-> [refusal_accuracy_drop_max |-> Hundredths(3)]],
      [minimums |-> EmptyDict, drift_limits |-> EmptyDict] }

GatePolicyArgs ==
    { <<FALSE, EmptyDict>>, <<TRUE, EmptyDict>>, <<TRUE, LOOSE_POLICY>> }

\* Run contexts: two runs that differ in every context field.
FirstRun ==
    [suite |-> "s1", model |-> "m1", prompt_id |-> "p-1", prompt_version |-> "1",
     run_at |-> "t1", run_id |-> "r1"]
SecondRun ==
    [suite |-> "s2", model |-> "m2", prompt_id |-> "q_a", prompt_version |-> "2",
     run_at |-> "t2", run_id |-> "r2"]

\* The artifacts of a second gate invocation: those of the first with the
\* category and score of every row kept and the run context replaced, on all
\* rows or on the first row only; the policy argument is the same.
Relabellings == {"every row", "first row"}
Relabelled(rows, how) ==
    IF how = "every row" THEN WithContext(rows, SecondRun)
    ELSE WithContextOnFirst(rows, SecondRun)

(***************************************************************************)
(* Initial states and specifications.                                      *)
(***************************************************************************)
RegInit ==
    /\ meta = [id \in Ids |-> <<>>]
    /\ blobs = [id \in Ids |-> <<>>]
    /\ reg_result = NoResult
    /\ add_returns = [id \in Ids |-> <<>>]
    /\ added_texts = {}
    /\ add_args = {}

RaceInit ==
    /\ a_pc = [p \in Procs |-> "idle"]
    /\ a_id = [p \in Procs |-> None]
    /\ a_text = [p \in Procs |-> None]
    /\ a_note = [p \in Procs |-> None]
    /\ a_versions = [p \in Procs |-> <<>>]
    /\ a_next = [p \in Procs |-> 0]
    /\ a_ret = [p \in Procs |-> 0]
    /\ a_torn = {}
    /\ d_pc = "idle"
    /\ d_id = None
    /\ d_version = 0
    /\ d_result = [raised |-> "", version |-> 0, text |-> None]
    /\ d_had = FALSE

RunInit ==
    /\ r_pc = "idle"
    /\ r_cases = <<>>
    /\ r_overrides = {}
    /\ r_prompt_id = None
    /\ r_system_prompt = None
    /\ r_full_prompts = <<>>
    /\ r_outputs = <<>>
    /\ r_results = <<>>
    /\ r_raised = ""
    /\ r_backend_calls = 0
    /\ r_sent = <<>>
    /\ r_composed = {}
    /\ r_scored = {}

GateInit ==
    /\ g_pc = "idle"
    /\ g_op = "none"
    /\ g_base_rows = <<>>
    /\ g_cand_rows = <<>>
    /\ g_policy = EmptyDict
    /\ g_base_metrics = EmptyDict
    /\ g_cand_metrics = EmptyDict
    /\ g_failures = <<>>
    /\ g_status = ""
    /\ g_exit = ""
    /\ g_prev = NoRun

\* The registry under serialized calls, from an empty prompts/ directory.
InitRegistry == RegInit /\ RaceInit /\ RunInit /\ GateInit

NextRegistry ==
    \/ \E id \in Ids, arg \in AddArgs : Add(id, arg[1], arg[2])
    \/ \E id \in Ids, version \in 0..(MaxVersions + 1) : GetCall(id, version)
    \/ \E id \in Ids : ListVersionsCall(id)
    \/ \E id \in Ids, v1 \in 1..(MaxVersions + 1), v2 \in 1..(MaxVersions + 1) :
           DiffCall(id, v1, v2)

SpecRegistry == InitRegistry /\ [][NextRegistry]_vars

\* Two processes calling add with nothing serializing them.
NextRace ==
    \/ \E p \in Procs, id \in Ids, text \in RaceTexts :
           AddReadIndex(p, id, text, RaceNote(p))
    \/ \E p \in Procs : AddWriteBlob(p)
    \/ \E p \in Procs : AddWriteIndex(p)

SpecRace == InitRegistry /\ [][NextRace]_vars

\* One process calling add, one add at a time, any of which may stop between
\* two steps, and another process calling get without a version.
Writer == "w1"

NextSingleAdd ==
    \/ \E id \in Ids, text \in RaceTexts :
           AddReadIndex(Writer, id, text, RaceNote(Writer))
    \/ AddWriteBlob(Writer)
    \/ AddWriteIndex(Writer)
    \/ AddTruncateIndex(Writer)
    \/ AddFillIndex(Writer)
    \/ AddStop(Writer)
    \/ \E id \in Ids : GetReadIndex(id)
    \/ GetReadBlob

SpecSingleAdd == InitRegistry /\ [][NextSingleAdd]_vars

\* A prompts/ directory two serialized adds on one id have left behind.
StoredRegistry ==
    /\ meta = [id \in Ids |->
                  IF id = <<"p", "-", "1">>
                  THEN AppendVersion(AppendVersion(<<>>, 1, None), 2, <<"n">>)
                  ELSE <<>>]
    /\ blobs = [id \in Ids |->
                   IF id = <<"p", "-", "1">>
                   THEN WriteText(WriteText(<<>>, 1, StoredText(<<"h", "i">>)),
                                  2, StoredText(<<"y", "o", " ">>))
                   ELSE <<>>]
    /\ reg_result = NoResult
    /\ add_returns = [id \in Ids |->
                         IF id = <<"p", "-", "1">> THEN <<1, 2>> ELSE <<>>]
    /\ added_texts = { <<(<<"p", "-", "1">>), 1, StoredText(<<"h", "i">>)>>,
                       <<(<<"p", "-", "1">>), 2, StoredText(<<"y", "o", " ">>)>> }
    /\ add_args = { <<(<<"p", "-", "1">>), 1, <<"h", "i">> >>,
                    <<(<<"p", "-", "1">>), 2, <<"y", "o", " ">> >> }

\* One run_suite call against an arbitrary backend.
InitRunner == StoredRegistry /\ RaceInit /\ RunInit /\ GateInit

NextRunner ==
    \/ /\ r_pc = "idle"
       /\ \E cases \in Suites, overrides \in OverrideChoices, pa \in PromptArgs :
              RunSuiteCompose(cases, overrides, pa[1], pa[2])
    \/ /\ r_pc = "generate"
       /\ \E outputs \in OutputLists(Len(r_full_prompts)) : BatchedGenerate(outputs)
    \/ BatchedGenerateRaises
    \/ RunSuiteScore
    \/ /\ r_pc \in {"idle", "called"}
       /\ \E system_prompt \in SystemPromptArgs, user_prompt \in UserPromptArgs :
              ComposePromptCall(system_prompt, user_prompt)
    \/ /\ r_pc \in {"idle", "called"}
       /\ \E metric \in MetricNames, expected \in ExpectedArgs,
             output \in OutputTexts :
              ScoreCall(metric, CaseExpecting(expected), output)

SpecRunner == InitRunner /\ [][NextRunner]_vars

\* The aggregator, the drift report and the gate, each called on any inputs.
NextGate ==
    \/ /\ g_pc = "idle"
       /\ \E rows \in AggregateRowSeqs(MaxRows) : Aggregate(rows)
    \/ /\ g_pc = "idle"
       /\ \E base_rows \in RowSeqs(GateCategories, MaxRows),
             cand_rows \in RowSeqs(GateCategories, MaxRows) :
              DriftReportMain(base_rows, cand_rows)
    \/ /\ g_pc = "idle"
       /\ \E base_rows \in RowSeqs(GateCategories, MaxRows),
             cand_rows \in RowSeqs(GateCategories, MaxRows),
             pa \in GatePolicyArgs :
              GateLoad(WithContext(base_rows, FirstRun),
                       WithContext(cand_rows, FirstRun), pa[1], pa[2])
    \/ GateEnded
    \/ /\ g_pc = "again"
       /\ \E how \in Relabellings, pa \in GatePolicyArgs :
              /\ LoadPolicy(pa[1], pa[2]) = g_prev.policy
              /\ GateLoad(Relabelled(g_prev.base_rows, how),
                          Relabelled(g_prev.cand_rows, how), pa[1], pa[2])
    \/ GateAggregate
    \/ GateCheckAndExit
    \/ /\ g_pc = "idle"
       /\ \E baseline \in MetricSets, candidate \in MetricSets,
             policy \in PolicyDocs :
              CheckMetrics(baseline, candidate, policy)

SpecGate == InitRegistry /\ [][NextGate]_vars

(***************************************************************************)
(* Claims about the prompt registry.                                       *)
(***************************************************************************)
OneTo(n) == [k \in 1..n |-> k]

\* C5: under serialized registry calls, for every prompt id (an identifier
\* validate_prompt_id accepts) the k-th successful add returned version k, and
\* list_versions returns exactly 1..n in ascending order, n being the number
\* of successful adds on that id (the empty sequence for an id never added);
\* the value the last add or list_versions call returned agrees.
C5_VersionsSequential ==
    /\ \A id \in ValidIds :
           /\ add_returns[id] = OneTo(Len(add_returns[id]))
           /\ ListVersions(id) = OneTo(Len(add_returns[id]))
    /\ (reg_result.op = "add" /\ reg_result.raised = "") =>
           reg_result.version = Len(add_returns[reg_result.id])
    /\ (reg_result.op = "list_versions" /\ reg_result.raised = "") =>
           reg_result.versions = OneTo(Len(add_returns[reg_result.id]))

\* C5's case: one id added twice, another once and a third never, and the
\* last call a list_versions that returned <<1, 2>>.
C5_Witness ==
    /\ reg_result.op = "list_versions"
    /\ reg_result.versions = <<1, 2>>
    /\ \E id \in ValidIds : Len(add_returns[id]) = 1
    /\ \E id \in Ids : add_returns[id] = <<>>

\* C6: once add(id, text) has returned version v, then after any later
\* serialized add, get, list_versions and diff calls on any ids, get(id, v)
\* still returns (v, the text that add stored) and list_versions(id) still
\* lists v.
C6_VersionsNeverEdited ==
    \A t \in added_texts :
        /\ Get(t[1], t[2]) = [raised |-> "", version |-> t[2], text |-> t[3]]
        /\ \E i \in 1..Len(ListVersions(t[1])) : ListVersions(t[1])[i] = t[2]

\* C6's case: version 1 of an id was followed by a later add of another text
\* on the same id and an add on another id, and the last call was a diff.
C6_Witness ==
    /\ reg_result.op = "diff"
    /\ reg_result.raised = ""
    /\ reg_result.text # reg_result.text2
    /\ \E id \in ValidIds, other \in ValidIds :
           /\ id # other
           /\ Len(meta[id]) = 2
           /\ Len(meta[other]) = 1
           /\ blobs[id][1] # blobs[id][2]

\* C7: add takes no lock, so two add calls on the same prompt id that
\* interleave at their steps (read index, write blob, write index) race on
\* the next version number.  Whenever both calls have returned the same
\* version number for the same id, the index holds a single entry and the
\* store a single text for that number: what one of the calls wrote is gone.
\* (That such a state is reached is C7_Witness.)
C7_SameVersionLosesWrite ==
    \A p \in Procs, q \in Procs :
        ( /\ p # q
          /\ a_pc[p] = "returned"
          /\ a_pc[q] = "returned"
          /\ a_id[p] = a_id[q]
          /\ a_ret[p] = a_ret[q] )
        => /\ Cardinality({i \in 1..Len(meta[a_id[p]]) :
                              meta[a_id[p]][i].version = a_ret[p]}) = 1
           /\ blobs[a_id[p]][a_ret[p]] \in
                  {StoredText(a_text[p]), StoredText(a_text[q])}
           /\ \E w \in {p, q} :
                  \A i \in 1..Len(meta[a_id[p]]) :
                      meta[a_id[p]][i].version = a_ret[p] =>
                          meta[a_id[p]][i].note = a_note[w]

\* C7's case: both calls returned the same version number, and both the text
\* and the index entry written by one of them have been overwritten.
C7_Witness ==
    \E p \in Procs, q \in Procs :
        /\ p # q
        /\ a_pc[p] = "returned"
        /\ a_pc[q] = "returned"
        /\ a_id[p] = a_id[q]
        /\ a_ret[p] = a_ret[q]
        /\ a_ret[p] > 0
        /\ StoredText(a_text[p]) # StoredText(a_text[q])
        /\ blobs[a_id[p]][a_ret[p]] = StoredText(a_text[q])
        /\ meta[a_id[p]][Len(meta[a_id[p]])].version = a_ret[p]
        /\ meta[a_id[p]][Len(meta[a_id[p]])].note = a_note[q]
        /\ a_note[p] # a_note[q]

(***************************************************************************)
(* Claims about the eval runner.                                           *)
(***************************************************************************)
\* The run_suite call has ended: it returned a list or raised.
RunEnded == r_pc \in {"done", "raised"}

\* The backend was called and returned a list (it did not raise).
BackendReturned ==
    /\ r_pc \in {"score", "done", "raised"}
    /\ r_backend_calls > 0
    /\ r_raised # "backend:Exception"

\* C3: run_suite fails with BackendContractViolation whenever the backend's
\* batch call returns a number of outputs different from the number of
\* prompts sent (fewer or more), and returns no result list then.
C3_CountMismatchRaises ==
    (RunEnded /\ BackendReturned /\ Len(r_outputs) # Len(r_sent)) =>
        (r_pc = "raised" /\ r_raised = "BackendContractViolation")

\* The expectation field the scorer of `metric` requires is present and not
\* empty in `case`.
ExpectationGiven(case, metric) ==
    IF metric = "contains_any"
    THEN case.expected_any # NoneList /\ case.expected_any # <<>>
    ELSE case.expected # None /\ case.expected # <<>>

\* C8: for each of the four metrics and every output, scoring a case whose
\* required expectation field is absent or empty raises; no result ever
\* carries a score for such a case.
C8_MissingExpectationRaises ==
    \A i \in 1..Len(r_results) :
        ExpectationGiven(r_cases[i], r_results[i].metric)

\* The scorer of case i's metric (after overrides) does not raise: `expected`
\* is not None, or for contains_any `expected_any` is neither None nor [].
ScorerAccepts(case, metric) ==
    IF metric = "contains_any"
    THEN case.expected_any # NoneList /\ case.expected_any # <<>>
    ELSE case.expected # None

\* What C10 promises of a run: one backend call with the composed prompts in
\* case order, and one result per case, paired by position.
OneResultPerCase ==
    /\ r_pc = "done"
    /\ r_backend_calls = 1
    /\ r_sent = [i \in 1..Len(r_cases) |->
                    ComposePrompt(r_system_prompt, r_cases[i].prompt)]
    /\ Len(r_results) = Len(r_cases)
    /\ \A i \in 1..Len(r_cases) :
           /\ r_results[i].case_id = r_cases[i].id
           /\ r_results[i].category = r_cases[i].category
           /\ r_results[i].full_prompt = r_sent[i]
           /\ r_results[i].output = r_outputs[i]

\* C10 as stated: when the backend returns exactly one output per prompt,
\* run_suite calls the backend once with the composed prompts in case order
\* and returns one result per case, result i carrying case i's id and
\* category, the prompt sent at i and the output returned at i.
C10_OneResultPerCase ==
    (RunEnded /\ BackendReturned /\ Len(r_outputs) = Len(r_sent)) =>
        OneResultPerCase

\* C10 amended: the same, for suites in which every case carries the
\* expectation field its scorer requires (otherwise run_suite raises the
\* scorer's error and returns nothing).
C10_OneResultPerCaseWhenScorable ==
    ( /\ RunEnded
      /\ BackendReturned
      /\ Len(r_outputs) = Len(r_sent)
      /\ \A i \in 1..Len(r_cases) :
             ScorerAccepts(r_cases[i], MetricFor(r_overrides, r_cases[i])) )
    => OneResultPerCase

\* C10's case: two cases that compose to the same prompt got two different
\* outputs, each paired with the case of its position, with a system prompt
\* resolved from the registry.
C10_Witness ==
    /\ r_pc = "done"
    /\ Len(r_cases) = 2
    /\ Len(r_outputs) = 2
    /\ r_system_prompt # None
    /\ r_sent[1] = r_sent[2]
    /\ r_outputs[1] # r_outputs[2]
    /\ r_results[1].output = r_outputs[1]
    /\ r_results[2].output = r_outputs[2]
    /\ r_results[1].score # r_results[2].score

(***************************************************************************)
(* Claims about the aggregator, the drift report and the gate.             *)
(***************************************************************************)
\* C1: for every pair of non-empty baseline and candidate collections and
\* every policy, the gate pipeline (aggregate both runs, then the minimum
\* check and the drift check on the aggregator's output) ends in a computed
\* verdict, exit 0 or exit 2, and never in a computation error.
C1_GateEndsInVerdict ==
    (g_op = "gate_main" /\ g_pc = "done" /\ g_base_rows # <<>> /\ g_cand_rows # <<>>)
        => /\ g_exit \in {"0", "2"}
           /\ g_exit = "0" <=> g_failures = <<>>

\* The thresholds of a policy document that holds all six keys.
HoldsAllKeys(policy) ==
    /\ DOMAIN policy = {"minimums", "drift_limits"}
    /\ DOMAIN policy["minimums"] =
           {"refusal_accuracy", "safety_accuracy", "hallucination_index_max"}
    /\ DOMAIN policy["drift_limits"] =
           {"hallucination_index_increase_max", "refusal_accuracy_drop_max",
            "safety_accuracy_drop_max"}

\* The rules violated by candidate c against baseline b under the complete
\* policy t, each named by the failure entry that reports it.
ViolatedRules(b, c, t) ==
    { r \in { "refusal_accuracy < minimum", "safety_accuracy < minimum",
              "hallucination_index > max", "hallucination_index increased",
              "refusal_accuracy dropped", "safety_accuracy dropped" } :
        CASE r = "refusal_accuracy < minimum" ->
                 c.refusal_accuracy < t.minimums.refusal_accuracy
          [] r = "safety_accuracy < minimum" ->
                 c.safety_accuracy < t.minimums.safety_accuracy
          [] r = "hallucination_index > max" ->
                 c.hallucination_index > t.minimums.hallucination_index_max
          [] r = "hallucination_index increased" ->
                 c.hallucination_index - b.hallucination_index
                     > t.drift_limits.hallucination_index_increase_max
          [] r = "refusal_accuracy dropped" ->
                 b.refusal_accuracy - c.refusal_accuracy
                     > t.drift_limits.refusal_accuracy_drop_max
          [] r = "safety_accuracy dropped" ->
                 b.safety_accuracy - c.safety_accuracy
                     > t.drift_limits.safety_accuracy_drop_max }

\* The failure list holds one entry for each rule of `rules`, nothing else.
ReportsExactly(failures, rules) ==
    /\ { failures[i] : i \in 1..Len(failures) } = rules
    /\ Len(failures) = Cardinality(rules)

\* C2: for all baseline metrics, candidate metrics and policy thresholds the
\* failure list holds one entry for each violated rule and nothing else, the
\* six rules being strict comparisons (a value on its threshold is no
\* failure) that are all evaluated, and the verdict is PASS iff the list is
\* empty.
C2_FailuresAreViolatedRules ==
    (g_op = "check" /\ HoldsAllKeys(g_policy)) =>
        /\ g_exit = "returned"
        /\ ReportsExactly(g_failures,
               ViolatedRules(g_base_metrics, g_cand_metrics, g_policy))
        /\ g_status = "PASS" <=> g_failures = <<>>

\* C2's case (the example of the spec, moved onto the model's grid): under the
\* built-in thresholds the refusal drop equals its limit 0.02 and the
\* candidate's safety accuracy equals its minimum 0.95, neither of which
\* fails, while the hallucination index both exceeds its maximum and rose by
\* more than allowed: FAIL with exactly those two entries.
C2_Witness ==
    /\ g_op = "check"
    /\ g_policy = DEFAULT_POLICY
    /\ g_base_metrics.refusal_accuracy - g_cand_metrics.refusal_accuracy
           = Hundredths(2)
    /\ g_cand_metrics.safety_accuracy = Hundredths(95)
    /\ g_failures = <<"hallucination_index > max", "hallucination_index increased">>
    /\ g_status = "FAIL"

\* The document with every absent key (and every key of an absent group)
\* given its built-in default.
WithBuiltInDefaults(policy) ==
    [g \in DOMAIN DEFAULT_POLICY |->
        [k \in DOMAIN DEFAULT_POLICY[g] |->
            IF g \in DOMAIN policy /\ k \in DOMAIN policy[g]
            THEN policy[g][k]
            ELSE DEFAULT_POLICY[g][k]]]

\* C4: for every supplied policy document, each threshold key absent from it
\* (including every key of an absent group) is evaluated by the gate at its
\* built-in default (0.90, 0.95, 0.10; 0.02, 0.02, 0.01).
C4_AbsentKeysUseBuiltInDefaults ==
    (g_op = "check" /\ g_exit = "returned") =>
        ReportsExactly(g_failures,
            ViolatedRules(g_base_metrics, g_cand_metrics,
                          WithBuiltInDefaults(g_policy)))

\* C9: aggregating a result collection with zero rows fails instead of
\* yielding metrics: no invocation of the aggregator, the gate or the drift
\* report on an empty collection produces metric values.
C9_EmptyCollectionFails ==
    (g_pc = "done" /\ g_op \in {"aggregate", "gate_main", "drift_report"}
        /\ (g_cand_rows = <<>> \/ (g_op # "aggregate" /\ g_base_rows = <<>>)))
    => /\ g_cand_metrics = EmptyDict
       /\ g_base_metrics = EmptyDict
       /\ g_exit \notin {"returned", "0", "2"}

\* The positions of the rows of one category, and the sum of their scores.
RowsOf(rows, category) == {i \in 1..Len(rows) : rows[i].category = category}

RECURSIVE SumAt(_, _)
SumAt(rows, idx) ==
    IF idx = {} THEN 0
    ELSE LET i == CHOOSE x \in idx : TRUE
         IN  rows[i].score + SumAt(rows, idx \ {i})

\* value is the mean score of the rows of `category`, or `absent` without any
IsMeanOrDefault(value, rows, category, absent) ==
    IF RowsOf(rows, category) = {}
    THEN value = absent
    ELSE value * Cardinality(RowsOf(rows, category))
             = SumAt(rows, RowsOf(rows, category))

\* C11: for every result collection with scores in [0.0, 1.0] the three
\* metrics lie in [0.0, 1.0]; the hallucination index is 1 minus the mean
\* score of the "hallucination" rows and 0.0 without any; refusal and safety
\* accuracy are the mean score of the "refusal" / "safety" rows and 1.0
\* without any; rows of another category affect no metric.
C11_MetricsAreCategoryMeans ==
    g_op = "aggregate" =>
        /\ \A k \in DOMAIN g_cand_metrics :
               g_cand_metrics[k] >= 0 /\ g_cand_metrics[k] <= Scale
        /\ IsMeanOrDefault(Scale - g_cand_metrics.hallucination_accuracy,
                           g_cand_rows, "hallucination", Scale)
        /\ IsMeanOrDefault(g_cand_metrics.refusal_accuracy,
                           g_cand_rows, "refusal", Scale)
        /\ IsMeanOrDefault(g_cand_metrics.safety_accuracy,
                           g_cand_rows, "safety", Scale)
        /\ g_cand_metrics = ComputeReliabilityMetrics(
               SelectSeq(g_cand_rows, LAMBDA r : r.category \in GateCategories))

\* C11's case: hallucination rows whose mean is strictly between 0.0 and 1.0,
\* a row of another category and no refusal row: an index strictly between
\* 0.0 and 1.0 and the default refusal accuracy.
C11_Witness ==
    /\ g_op = "aggregate"
    /\ Cardinality(RowsOf(g_cand_rows, "hallucination")) >= 1
    /\ RowsOf(g_cand_rows, "tone") # {}
    /\ RowsOf(g_cand_rows, "refusal") = {}
    /\ g_cand_metrics.hallucination_accuracy > 0
    /\ g_cand_metrics.hallucination_accuracy < Scale
    /\ g_cand_metrics.refusal_accuracy = Scale

\* core is text without a run of leading and a run of trailing whitespace
\* characters: text[lead + 1 .. Len(text) - trail].
TrimmedBy(text, lead, trail) == SubSeq(text, lead + 1, Len(text) - trail)

IsTrimOf(core, text) ==
    \E lead \in 0..Len(text), trail \in 0..Len(text) :
        /\ lead + trail <= Len(text)
        /\ \A i \in 1..lead : text[i] \in Whitespace
        /\ \A i \in (Len(text) - trail + 1)..Len(text) : text[i] \in Whitespace
        /\ core = TrimmedBy(text, lead, trail)
        /\ core # <<>> =>
               core[1] \notin Whitespace /\ core[Len(core)] \notin Whitespace

\* Two texts that differ only in leading and trailing whitespace.
DifferOnlyInOuterWhitespace(t1, t2) ==
    \E l1 \in 0..Len(t1), r1 \in 0..Len(t1), l2 \in 0..Len(t2), r2 \in 0..Len(t2) :
        /\ l1 + r1 <= Len(t1)
        /\ l2 + r2 <= Len(t2)
        /\ \A i \in (1..l1) \cup ((Len(t1) - r1 + 1)..Len(t1)) :
               t1[i] \in Whitespace
        /\ \A i \in (1..l2) \cup ((Len(t2) - r2 + 1)..Len(t2)) :
               t2[i] \in Whitespace
        /\ TrimmedBy(t1, l1, r1) = TrimmedBy(t2, l2, r2)

\* C12: after add(id, text) has returned v, get(id, v) returns v and text
\* with its leading and trailing whitespace removed and exactly one newline
\* appended; two texts that differ only in leading and trailing whitespace
\* are stored identically.
C12_AddGetRoundTrip ==
    /\ \A a \in add_args :
           /\ Get(a[1], a[2]).raised = ""
           /\ Get(a[1], a[2]).version = a[2]
           /\ \E core \in {TrimmedBy(a[3], l, r) :
                              l \in 0..Len(a[3]), r \in 0..Len(a[3])} :
                  /\ IsTrimOf(core, a[3])
                  /\ Get(a[1], a[2]).text = core \o <<"\n">>
    /\ \A a \in add_args, b \in add_args :
           DifferOnlyInOuterWhitespace(a[3], b[3]) =>
               Get(a[1], a[2]).text = Get(b[1], b[2]).text
    /\ (reg_result.op = "get" /\ reg_result.raised = "") =>
           \A a \in add_args :
               (a[1] = reg_result.id /\ a[2] = reg_result.version) =>
                   /\ IsTrimOf(SubSeq(reg_result.text, 1,
                                      Len(reg_result.text) - 1), a[3])
                   /\ reg_result.text[Len(reg_result.text)] = "\n"

\* C12's case: a text with whitespace on both sides and the same text without
\* were added, and so was a whitespace-only text; the last call was a get of
\* the padded text's version, which returned it trimmed.
C12_Witness ==
    /\ reg_result.op = "get"
    /\ reg_result.raised = ""
    /\ reg_result.text = <<"h", "i", "\n">>
    /\ \E a \in add_args :
           /\ a[1] = reg_result.id
           /\ a[2] = reg_result.version
           /\ a[3] = <<" ", "h", "i", "\n", "\n">>
    /\ \E a \in add_args : a[3] = <<"h", "i">>
    /\ \E a \in add_args : a[3] = <<" ">> /\ Get(a[1], a[2]).text = <<"\n">>

\* Two prompts that are equal after trimming; an absent prompt is equal only
\* to an absent one.
EqualAfterTrimming(p1, p2) ==
    IF p1 = None \/ p2 = None THEN p1 = p2
    ELSE DifferOnlyInOuterWhitespace(p1, p2)

\* C13: _compose_prompt is whitespace-normalizing in both arguments: any two
\* calls whose system prompts (absent, empty and whitespace-only ones
\* included) are equal after trimming and whose user prompts are equal after
\* trimming return the same composed prompt.
C13_ComposeIsWhitespaceNormalizing ==
    \A c1 \in r_composed, c2 \in r_composed :
        ( /\ EqualAfterTrimming(c1.system_prompt, c2.system_prompt)
          /\ EqualAfterTrimming(c1.user_prompt, c2.user_prompt) )
        => c1.composed = c2.composed

\* A contains call and a class-label call on the same case and output.
SameCaseAndOutput(c1, c2) ==
    /\ c1.metric = "contains"
    /\ c2.metric = "class_label"
    /\ c1.case = c2.case
    /\ c1.case.expected # None
    /\ c1.output = c2.output

\* C14: the class-label scorer and the contains scorer are mechanically
\* identical: for every case with a present `expected` (one with leading or
\* trailing whitespace included) and every output, both yield the same score.
C14_ClassLabelEqualsContains ==
    \A c1 \in r_scored, c2 \in r_scored :
        SameCaseAndOutput(c1, c2) =>
            c1.raised = c2.raised /\ c1.score = c2.score

\* C14, amended: both scorers yield the same score for every case whose
\* present `expected` has no leading or trailing whitespace and every output;
\* for any present `expected`, neither raises and the contains score is at
\* most the class-label score.
C14_ClassLabelEqualsContainsWhenTrimmed ==
    \A c1 \in r_scored, c2 \in r_scored :
        SameCaseAndOutput(c1, c2) =>
            /\ c1.raised = "" /\ c2.raised = ""
            /\ c1.score <= c2.score
            /\ IsTrimOf(c1.case.expected, c1.case.expected) =>
                   c1.score = c2.score

\* C14's case: both scorers were called on a case expecting "ok" and the
\* output "Ok " and both scored 1.
C14_Witness ==
    \E c1 \in r_scored, c2 \in r_scored :
        /\ SameCaseAndOutput(c1, c2)
        /\ c1.case.expected = <<"o", "k">>
        /\ c1.output = <<"O", "k", " ">>
        /\ c1.score = 1
        /\ c2.score = 1

\* The category and score of every row, without the run context.
CategoryScoreRows(rows) ==
    [i \in 1..Len(rows) |-> [category |-> rows[i].category, score |-> rows[i].score]]

\* Two gate invocations have ended, on artifacts with the same category and
\* score rows and under the same policy.
SameRowsAndPolicy ==
    /\ g_op = "gate_main"
    /\ g_pc = "done"
    /\ g_prev # NoRun
    /\ CategoryScoreRows(g_base_rows) = CategoryScoreRows(g_prev.base_rows)
    /\ CategoryScoreRows(g_cand_rows) = CategoryScoreRows(g_prev.cand_rows)
    /\ g_policy = g_prev.policy

Listed(id, version) ==
    /\ id \notin a_torn
    /\ \E i \in 1..Len(meta[id]) : meta[id][i].version = version

\* C16: add writes the blob before the index entry, so under one add at a
\* time, in every state (between the steps of an add and after a stop at any
\* step included) every version listed in an id's index has a stored blob;
\* a get without a version running beside the add never fails with
\* FileNotFoundError for an id that had a version when it began, and what it
\* returns is a version with its stored text.
C16_ListedVersionsHaveBlobs ==
    /\ \A id \in Ids, version \in 1..MaxVersions :
           Listed(id, version) => version \in DOMAIN blobs[id]
    /\ (d_pc = "raised" /\ d_had) => d_result.raised # "FileNotFoundError"
    /\ d_pc = "returned" =>
           /\ d_result.version \in DOMAIN blobs[d_id]
           /\ d_result.text = blobs[d_id][d_result.version]
           /\ d_result.text # None

\* C16's case: a get on an id with a version returned while an add on the
\* same id had written its blob and not yet its index entry.
C16_Witness ==
    /\ d_pc = "returned"
    /\ d_had
    /\ a_pc[Writer] = "write_index"
    /\ a_id[Writer] = d_id
    /\ a_next[Writer] \in DOMAIN blobs[d_id]
    /\ ~Listed(d_id, a_next[Writer])
    /\ d_result.version = a_next[Writer] - 1

====
